---- MODULE Spec2Model ----
(***************************************************************************)
(* Model of swaggerTransformer (express-router-swagger): the synthesis of  *)
(* an OpenAPI 3.0 document from route registries.                          *)
(*                                                                         *)
(* JavaScript strings that the code inspects character by character (path  *)
(* templates, operation ids, parameter names, status codes, class names)   *)
(* are sequences of one-character strings; strings the code only copies    *)
(* (descriptions, examples, type names) are TLA+ strings.                  *)
(***************************************************************************)
EXTENDS Integers, Sequences, FiniteSets, TLC

VARIABLES pc, options, paths, components, paramCache, opIdSet, log, doc, error

vars == <<pc, options, paths, components, paramCache, opIdSet, log, doc, error>>

----------------------------------------------------------------------------
(* Characters and string helpers                                            *)

LowerLetters ==
  <<"a","b","c","d","e","f","g","h","i","j","k","l","m",
    "n","o","p","q","r","s","t","u","v","w","x","y","z">>

UpperLetters ==
  <<"A","B","C","D","E","F","G","H","I","J","K","L","M",
    "N","O","P","Q","R","S","T","U","V","W","X","Y","Z">>

DigitChars == <<"0","1","2","3","4","5","6","7","8","9">>

Range(f) == { f[i] : i \in DOMAIN f }

IndexOf(seq, c) == CHOOSE i \in DOMAIN seq : seq[i] = c

IsLower(c) == c \in Range(LowerLetters)

IsUpper(c) == c \in Range(UpperLetters)

IsDigit(c) == c \in Range(DigitChars)

\* [A-Za-z0-9]
IsAlnum(c) == IsLower(c) \/ IsUpper(c) \/ IsDigit(c)

\* [a-zA-Z0-9_]
IsWordChar(c) == IsAlnum(c) \/ c = "_"

\* String.prototype.toUpperCase on one character
ToUpperChar(c) == IF IsLower(c) THEN UpperLetters[IndexOf(LowerLetters, c)] ELSE c

\* String.prototype.toLowerCase on one character
ToLowerChar(c) == IF IsUpper(c) THEN LowerLetters[IndexOf(UpperLetters, c)] ELSE c

ToUpperCase(s) == [i \in DOMAIN s |-> ToUpperChar(s[i])]

ToLowerCase(s) == [i \in DOMAIN s |-> ToLowerChar(s[i])]

\* s.slice(from - 1): the suffix of s starting at 1-based index from
Drop(s, from) == IF from > Len(s) THEN <<>> ELSE SubSeq(s, from, Len(s))

IsSlash(c) == c = "/"

NotAlnum(c) == ~IsAlnum(c)

\* fullPath.replace(/\//g, "_")
SlashesToUnderscores(s) == [i \in DOMAIN s |-> IF IsSlash(s[i]) THEN "_" ELSE s[i]]

\* .replace(/[^A-Za-z0-9]/g, "_")
NonAlnumToUnderscores(s) == [i \in DOMAIN s |-> IF NotAlnum(s[i]) THEN "_" ELSE s[i]]

RECURSIVE ToDec(_)
\* template-literal conversion of a non-negative integer to decimal digits
ToDec(n) == IF n < 10 THEN <<DigitChars[n + 1]>>
            ELSE ToDec(n \div 10) \o <<DigitChars[(n % 10) + 1]>>

----------------------------------------------------------------------------
(* Path normalizer: part_000 lines 82-86                                    *)

RECURSIVE WordEnd(_, _)
\* first index at or after i that holds no [a-zA-Z0-9_] character
WordEnd(s, i) == IF i <= Len(s) /\ IsWordChar(s[i]) THEN WordEnd(s, i + 1) ELSE i

RECURSIVE ReplaceOptionalFrom(_, _)
\* .replace(/:([a-zA-Z0-9_]+)\?/g, "{$1}") scanning from index i
ReplaceOptionalFrom(s, i) ==
  IF i > Len(s) THEN <<>>
  ELSE LET e == WordEnd(s, i + 1)
       IN IF s[i] = ":" /\ e > i + 1 /\ e <= Len(s) /\ s[e] = "?"
          THEN <<"{">> \o SubSeq(s, i + 1, e - 1) \o <<"}">>
               \o ReplaceOptionalFrom(s, e + 1)
          ELSE <<s[i]>> \o ReplaceOptionalFrom(s, i + 1)

ReplaceOptional(s) == ReplaceOptionalFrom(s, 1)

RECURSIVE SlashEnd(_, _)
\* first index at or after i that holds no slash
SlashEnd(s, i) == IF i <= Len(s) /\ s[i] = "/" THEN SlashEnd(s, i + 1) ELSE i

\* .replace(/\/{2,}/, "/"): no g flag, so only the leftmost run is replaced
CollapseSlashes(s) ==
  LET starts == { i \in 1..(Len(s) - 1) : s[i] = "/" /\ s[i + 1] = "/" }
  IN IF starts = {} THEN s
     ELSE LET i == CHOOSE k \in starts : \A j \in starts : k <= j
          IN SubSeq(s, 1, i) \o Drop(s, SlashEnd(s, i))

\* if (fullPath.endsWith("/") && fullPath.length > 1) fullPath = fullPath.slice(0, -1)
StripTrailingSlash(s) ==
  IF Len(s) > 1 /\ s[Len(s)] = "/" THEN SubSeq(s, 1, Len(s) - 1) ELSE s

FullPath(rootPath, path) ==
  StripTrailingSlash(CollapseSlashes(ReplaceOptional(rootPath \o path)))

----------------------------------------------------------------------------
(* JavaScript values                                                        *)

\* null, as it is written into an example payload
Null == <<"null">>

\* undefined, for the optional string-valued fields the code only copies
Undefined == "<undefined>"

\* obj.k !== undefined for an object modelled as a record or a map
Has(obj, k) == k \in DOMAIN obj

\* obj[k] = v
Put(obj, k, v) == (k :> v) @@ obj

\* Object.assign(obj, src)
Assign(obj, src) == src @@ obj

EmptyObject == <<>>

\* a ?? b for the optional string-valued fields
OrElse(a, b) == IF a = Undefined THEN b ELSE a

\* the map held by a sequence of <<key, value>> pairs in insertion order
RECURSIVE FromEntries(_)
FromEntries(entries) ==
  IF entries = <<>> THEN EmptyObject
  ELSE Put(FromEntries(SubSeq(entries, 1, Len(entries) - 1)),
           entries[Len(entries)][1], entries[Len(entries)][2])

\* s.includes(sub)
Includes(s, sub) ==
  \E i \in 1..(Len(s) - Len(sub) + 1) : SubSeq(s, i, i + Len(sub) - 1) = sub

----------------------------------------------------------------------------
(* Schema adapter: withClassName, isMultipart, j2s, collect, resolveProps   *)

\* A Joi schema is a record
\*   [kind, label, className, multipart, keys]
\* kind "object" (Joi.object), "string" (a schema without keys) or "malformed"
\* (one the converter rejects); label and className are "" when not set; keys
\* is the sequence of [name, type, description, required] of an object's
\* children, description being Undefined when the child has none.  A child
\* whose own meta carries a className has that name as the further field
\* className.

\* withClassName: meta({ className: label }) when a label is set and no meta
\* carries a className
withClassName(schema) ==
  IF schema.label # "" /\ schema.className = ""
  THEN [schema EXCEPT !.className = schema.label]
  ELSE schema

\* isMultipart: some meta has contentType "multipart"
isMultipart(schema) == schema.multipart

\* the converter's schema of a child's own type
TypeSchema(key) ==
  IF key.description = Undefined
  THEN [type |-> key.type]
  ELSE [type |-> key.type, description |-> key.description]

\* the converter's schema of one child: a child carrying a className is
\* extracted and referenced, as the object itself would be
PropSchema(key) ==
  IF Has(key, "className") THEN [ref |-> key.className] ELSE TypeSchema(key)

\* the components the conversion of the children extracts, in key order
Extracted(schema) ==
  LET named == SelectSeq(schema.keys, LAMBDA k : Has(k, "className"))
  IN [i \in DOMAIN named |-> <<named[i].className, TypeSchema(named[i])>>]

\* the converter's schema of the object itself, before any extraction
ObjectSwagger(schema) ==
  LET props == [i \in DOMAIN schema.keys |->
                  <<schema.keys[i].name, PropSchema(schema.keys[i])>>]
      req == SelectSeq([i \in DOMAIN schema.keys |-> schema.keys[i]],
                       LAMBDA k : k.required)
      reqNames == [i \in DOMAIN req |-> req[i].name]
  IN IF schema.kind # "object" THEN [type |-> schema.kind]
     ELSE IF reqNames = <<>>
          THEN [type |-> "object", properties |-> props]
          ELSE [type |-> "object", properties |-> props, required |-> reqNames]

\* j2s(schema): { swagger, components }.  A schema carrying a className is
\* extracted into components.schemas, after the components of its children,
\* and referenced; components has no schemas when nothing was extracted.
j2s(schema) ==
  IF schema.className # ""
  THEN [swagger |-> [ref |-> schema.className],
        components |->
          [schemas |-> Extracted(schema)
                         \o <<<<schema.className, ObjectSwagger(schema)>>>>]]
  ELSE [swagger |-> ObjectSwagger(schema),
        components |-> IF Extracted(schema) = <<>> THEN EmptyObject
                       ELSE [schemas |-> Extracted(schema)]]

\* the converter fails on this schema
j2sThrows(schema) == schema.kind = "malformed"

\* collect: if (comp?.schemas) Object.assign(components.schemas, comp.schemas)
collect(schemas, comp) ==
  IF Has(comp, "schemas") THEN Assign(schemas, FromEntries(comp.schemas)) ELSE schemas

\* resolveProps: { props, required } of a fragment, looked up through a
\* reference into the collected schemas when the fragment is one
resolveProps(schemas, swaggerSchema) ==
  LET of(s) == IF Has(s, "required")
               THEN [props |-> s.properties, required |-> s.required]
               ELSE [props |-> s.properties]
  IN IF Has(swaggerSchema, "properties") THEN of(swaggerSchema)
     ELSE IF Has(swaggerSchema, "ref")
               /\ Has(schemas, swaggerSchema.ref)
               /\ Has(schemas[swaggerSchema.ref], "properties")
          THEN of(schemas[swaggerSchema.ref])
          ELSE EmptyObject

\* required?.includes(name) ?? false
IsRequired(resolved, name) ==
  Has(resolved, "required") /\ name \in Range(resolved.required)

----------------------------------------------------------------------------
(* Parameter builder: pushParam and the header / path / query sections      *)

HEADER == <<"h","e","a","d","e","r">>

PATH == <<"p","a","t","h">>

QUERY == <<"q","u","e","r","y">>

\* The state one route's processing threads through its sections: the shared
\* components.schemas and components.parameters, paramCache, the operation's
\* parameters array, and the error thrown so far ("" when none).

\* a signature that forgets to leave required out: { in, name, ...rest }
SignatureWithRequired(paramObj) ==
  [k \in (DOMAIN paramObj) \ {"in", "name"} |-> paramObj[k]]

\* JSON.stringify(rest) of const { in, name, required, ...rest } = paramObj.
\* Keys whose value is undefined are not serialized, and they are not fields of
\* the modelled object either, so the signature is the remaining record.
Signature(paramObj) ==
  [k \in (DOMAIN paramObj) \ {"in", "name", "required"} |-> paramObj[k]]

\* `${ loc }_${ name }`.replace(/[^A-Za-z0-9]/g, "_")
CompName(loc, name) == NonAlnumToUnderscores(loc \o <<"_">> \o name)

pushParam(ctx, paramObj) ==
  LET sig == Signature(paramObj)
  IN IF Has(ctx.cache, sig)
     THEN [ctx EXCEPT !.arr = Append(@, [ref |-> ctx.cache[sig]])]
     ELSE LET compName == CompName(paramObj.in, paramObj.name)
          IN [ctx EXCEPT !.parameters = Put(@, compName, paramObj),
                         !.cache = Put(@, sig, compName),
                         !.arr = Append(@, [ref |-> compName])]

RECURSIVE Split(_, _)
\* s.split(sep) for a one-character separator
Split(s, sep) ==
  LET at == { i \in DOMAIN s : s[i] = sep }
  IN IF at = {} THEN <<s>>
     ELSE LET i == CHOOSE k \in at : \A j \in at : k <= j
          IN <<SubSeq(s, 1, i - 1)>> \o Split(Drop(s, i + 1), sep)

RECURSIVE Join(_, _)
\* parts.join(sep)
Join(parts, sep) ==
  IF parts = <<>> THEN <<>>
  ELSE IF Len(parts) = 1 THEN parts[1]
  ELSE parts[1] \o <<sep>> \o Join(Tail(parts), sep)

\* p[0].toUpperCase() throws a TypeError when the segment p is empty
HeaderNameThrows(name) == \E p \in Range(Split(name, "-")) : p = <<>>

\* name.split("-").map((p) => p[0].toUpperCase() + p.slice(1)).join("-")
HeaderName(name) ==
  LET parts == Split(name, "-")
  IN Join([i \in DOMAIN parts |->
             <<ToUpperChar(parts[i][1])>> \o Drop(parts[i], 2)], "-")

\* the optional description of a parameter object
WithDescription(pObj, description) ==
  IF description = Undefined THEN pObj
  ELSE [k \in (DOMAIN pObj) \cup {"description"} |->
          IF k = "description" THEN description ELSE pObj[k]]

DescriptionOf(prop) == IF Has(prop, "description") THEN prop.description ELSE Undefined

HeaderParam(resolved, name, prop) ==
  WithDescription([name |-> HeaderName(name), in |-> HEADER,
                   required |-> IsRequired(resolved, name), schema |-> prop],
                  DescriptionOf(prop))

\* required: true, whatever the schema says
PathParam(routePath, name, prop) ==
  WithDescription([name |-> name, in |-> PATH, required |-> TRUE, schema |-> prop],
                  OrElse(DescriptionOf(prop),
                         IF Includes(routePath, <<":">> \o name \o <<"?">>)
                         THEN "Optional parameter" ELSE ""))

QueryParam(resolved, name, prop) ==
  WithDescription([name |-> name, in |-> QUERY,
                   required |-> IsRequired(resolved, name), schema |-> prop],
                  DescriptionOf(prop))

ParamObj(loc, routePath, resolved, name, prop) ==
  IF loc = HEADER THEN HeaderParam(resolved, name, prop)
  ELSE IF loc = PATH THEN PathParam(routePath, name, prop)
  ELSE QueryParam(resolved, name, prop)

RECURSIVE PushProps(_, _, _, _, _)
\* Object.keys(props).forEach((name) => { ...; pushParam(pObj, op.parameters) })
PushProps(ctx, loc, routePath, resolved, i) ==
  IF ctx.threw # "" \/ i > Len(resolved.props) THEN ctx
  ELSE LET name == resolved.props[i][1]
           prop == resolved.props[i][2]
       IN IF loc = HEADER /\ HeaderNameThrows(name)
          THEN [ctx EXCEPT !.threw = "TypeError"]
          ELSE PushProps(pushParam(ctx, ParamObj(loc, routePath, resolved, name, prop)),
                         loc, routePath, resolved, i + 1)

\* the rest of a block once the schema is converted and its components collected
ParamsOf(ctx, loc, routePath, resolved) ==
  IF Has(resolved, "props") THEN PushProps(ctx, loc, routePath, resolved, 1) ELSE ctx

Collected(ctx, conv) == [ctx EXCEPT !.schemas = collect(@, conv.components)]

Converted(ctx, loc, routePath, conv) ==
  ParamsOf(Collected(ctx, conv), loc, routePath,
           resolveProps(collect(ctx.schemas, conv.components), conv.swagger))

\* one of the blocks if (headers) / if (params) / if (query)
ParamSection(ctx, loc, routePath, schema) ==
  IF ctx.threw # "" THEN ctx
  ELSE IF j2sThrows(schema) THEN [ctx EXCEPT !.threw = "converter"]
  ELSE Converted(ctx, loc, routePath, j2s(withClassName(schema)))

----------------------------------------------------------------------------
(* Request body resolver: part_000 lines 173-192                            *)

\* bSw.$ref ? <its target> : comp?.schemas ? Object.keys(comp.schemas)[0] : null
\* (the empty sequence stands for a missing name, which is falsy as well)
BodyRefName(conv) ==
  IF Has(conv.swagger, "ref") THEN <<conv.swagger.ref>>
  ELSE IF Has(conv.components, "schemas") /\ conv.components.schemas # <<>>
       THEN <<conv.components.schemas[1][1]>>
       ELSE <<>>

RequestBody(multipart, conv, refName) ==
  [content |->
     ((IF multipart THEN "multipart/form-data" ELSE "application/json") :>
        [schema |-> IF refName # <<>> THEN [ref |-> refName[1]] ELSE conv.swagger])]

BodyConverted(ctx, multipart, conv) ==
  [ctx EXCEPT !.schemas = collect(@, conv.components),
              !.requestBody = RequestBody(multipart, conv, BodyRefName(conv))]

BodySection(ctx, body) ==
  IF ctx.threw # "" THEN ctx
  ELSE IF j2sThrows(body) THEN [ctx EXCEPT !.threw = "converter"]
  ELSE BodyConverted(ctx, isMultipart(body), j2s(withClassName(body)))

HeadersBlock(ctx, route) ==
  IF Has(route.schema, "headers")
  THEN ParamSection(ctx, HEADER, route.path, route.schema.headers) ELSE ctx

ParamsBlock(ctx, route) ==
  IF Has(route.schema, "params")
  THEN ParamSection(ctx, PATH, route.path, route.schema.params) ELSE ctx

QueryBlock(ctx, route) ==
  IF Has(route.schema, "query")
  THEN ParamSection(ctx, QUERY, route.path, route.schema.query) ELSE ctx

BodyBlock(ctx, route) ==
  IF Has(route.schema, "body") THEN BodySection(ctx, route.schema.body) ELSE ctx

\* if (route.schema) { headers; params; query; body }
SchemaSections(ctx, route) ==
  IF ~Has(route, "schema") THEN ctx
  ELSE BodyBlock(QueryBlock(ParamsBlock(HeadersBlock(ctx, route), route), route), route)

----------------------------------------------------------------------------
(* Response assembler: part_000 lines 195-250, part_002                     *)

\* A response constructor is a record [throws, code, name, headers, raw,
\* example]: throws when new Resp() throws; code is String(r.code) and name is
\* r.name, both empty when the field is missing; headers is
\* [kind, entries, contentType] with kind "none" (no headers), "plain" (an
\* object of own properties, without a get method) or "Headers" (a Headers
\* instance: no own enumerable properties, get(name) answers contentType or
\* null); example is Undefined when missing.

RECURSIVE SpaceCapitals(_)
\* name.replace(/([A-Z])/g, " $1")
SpaceCapitals(s) ==
  IF s = <<>> THEN <<>>
  ELSE (IF IsUpper(s[1]) THEN <<" ", s[1]>> ELSE <<s[1]>>) \o SpaceCapitals(Tail(s))

RECURSIVE TrimStart(_)
TrimStart(s) == IF s # <<>> /\ s[1] = " " THEN TrimStart(Tail(s)) ELSE s

RECURSIVE TrimEnd(_)
TrimEnd(s) ==
  IF s # <<>> /\ s[Len(s)] = " " THEN TrimEnd(SubSeq(s, 1, Len(s) - 1)) ELSE s

\* String.prototype.trim
Trim(s) == TrimEnd(TrimStart(s))

classNameToReadable(name) ==
  LET readableName == Trim(SpaceCapitals(name))
  IN IF readableName = <<>> THEN <<>>
     ELSE <<ToUpperChar(readableName[1])>> \o ToLowerCase(Drop(readableName, 2))

\* a success test that knows the 2xx codes only: /^2/
IsSuccessClass2xx(code) == code # <<>> /\ code[1] = "2"

\* /^[123]/.test(String(r.code))
IsSuccessClass(code) == code # <<>> /\ code[1] \in {"1", "2", "3"}

\* hdrs: one header object per own property of r.headers
ResponseHeaders(r) ==
  IF r.headers.kind = "plain"
  THEN FromEntries([i \in DOMAIN r.headers.entries |->
         <<r.headers.entries[i][1],
           [description |-> <<"Header: ", r.headers.entries[i][1]>>,
            schema |-> [type |-> r.headers.entries[i][2]]]>>])
  ELSE EmptyObject

\* headers: Object.keys(hdrs).length ? hdrs : undefined
WithHeaders(resp, hdrs) ==
  IF hdrs = EmptyObject THEN resp ELSE ("headers" :> hdrs) @@ resp

\* r.headers?.get("content-type") ?? "application/json"
ContentType(r) ==
  IF r.headers.kind = "Headers" THEN OrElse(r.headers.contentType, "application/json")
  ELSE "application/json"

\* r.headers is set and has no get method: r.headers.get(...) is a TypeError
GetThrows(r) == r.headers.kind = "plain"

\* (a raw example is emitted verbatim; the model tags it to tell it from an
\* envelope)
SuccessResponse(r) ==
  WithHeaders(
    [description |-> "Success response",
     content |-> (ContentType(r) :>
        [example |-> IF ~r.raw
                     THEN [error |-> Null,
                           content |-> OrElse(r.example, "Response content")]
                     ELSE [verbatim |-> OrElse(r.example, "Response content")]])],
    ResponseHeaders(r))

ErrorResponse(r) ==
  WithHeaders(
    [description |-> classNameToReadable(r.name),
     content |-> ("application/json" :>
        [example |-> [error |-> r.name, content |-> "Error message"]])],
    ResponseHeaders(r))

\* the default 200 response of lines 235-250
DefaultResponse(m) ==
  [description |-> "Successful response",
   headers |-> ("Content-Type" :>
      [description |-> "The content type of the response",
       schema |-> [type |-> "string", example |-> "application/json"]]),
   content |-> ("application/json" :>
      [example |-> [error |-> Null,
                    content |-> IF Has(m, "example") THEN m.example
                                ELSE "Response content"]])]

\* one iteration of (m.responses || []).forEach over acc = [responses, custom, threw]
ResponseStep(acc, Resp) ==
  IF acc.threw # "" THEN acc
  ELSE IF Resp.throws THEN [acc EXCEPT !.threw = "constructor"]
  ELSE IF IsSuccessClass(Resp.code)
       THEN IF GetThrows(Resp)
            THEN [acc EXCEPT !.custom = TRUE, !.threw = "TypeError"]
            ELSE [acc EXCEPT !.custom = TRUE,
                             !.responses = Put(@, Resp.code, SuccessResponse(Resp))]
  ELSE IF Resp.code # <<>> /\ Resp.name # <<>>
       THEN [acc EXCEPT !.responses = Put(@, Resp.code, ErrorResponse(Resp))]
       ELSE acc

RECURSIVE ResponseLoop(_, _)
ResponseLoop(acc, resps) ==
  IF resps = <<>> THEN acc
  ELSE ResponseLoop(ResponseStep(acc, Head(resps)), Tail(resps))

\* if (!custom) op.responses["200"] = <the default>
WithDefault(acc, m) ==
  IF acc.threw = "" /\ ~acc.custom
  THEN [acc EXCEPT !.responses = Put(@, <<"2","0","0">>, DefaultResponse(m))]
  ELSE acc

\* lines 195-250: the declared responses, then the default when none was
\* success-class
Responses(m) ==
  WithDefault(ResponseLoop([responses |-> EmptyObject, custom |-> FALSE, threw |-> ""],
                           IF Has(m, "responses") THEN m.responses ELSE <<>>), m)

----------------------------------------------------------------------------
(* Operation assembler: part_000 lines 88-112 and 252                       *)

\* route.metadata ?? {}  (a null metadata is the record [null |-> TRUE])
Metadata(route) == IF Has(route.metadata, "null") THEN EmptyObject ELSE route.metadata

\* `${ method }_${ fullPath.replace(/\//g, "_") }`
BaseId(method, fullPath) == method \o <<"_">> \o SlashesToUnderscores(fullPath)

\* the n-th candidate of the loop: baseId, then `${ baseId }_${ n }`
Candidate(baseId, n) == IF n = 0 THEN baseId ELSE baseId \o <<"_">> \o ToDec(n)

RECURSIVE FirstFree(_, _, _)
FirstFree(baseId, n, used) ==
  IF Candidate(baseId, n) \in used THEN FirstFree(baseId, n + 1, used) ELSE n

\* an operation id without collision resolution
OperationIdUnchecked(baseId, used) == baseId

\* an operation id that retries once: if instead of while
OperationIdOneRetry(baseId, used) ==
  IF baseId \in used THEN Candidate(baseId, 1) ELSE baseId

\* let operationId = baseId; let n = 1
\* while (opIdSet.has(operationId)) operationId = `${ baseId }_${ n++ }`
OperationId(baseId, used) == Candidate(baseId, FirstFree(baseId, 0, used))

RECURSIVE ReplaceSlashRuns(_)
\* rootPath.replace(/\/+/g, " ")
ReplaceSlashRuns(s) ==
  IF s = <<>> THEN <<>>
  ELSE IF s[1] = "/" THEN <<" ">> \o ReplaceSlashRuns(Drop(s, SlashEnd(s, 1)))
  ELSE <<s[1]>> \o ReplaceSlashRuns(Tail(s))

\* builder.tags?.length ? builder.tags : [rootPath.replace(/\/+/g, " ")]
Tags(builder) ==
  IF Has(builder, "tags") /\ builder.tags # <<>> THEN builder.tags
  ELSE <<ReplaceSlashRuns(builder.root)>>

\* m.auth is [isArray |-> TRUE, names] or [isArray |-> FALSE, entries]
Security(auth) ==
  IF auth.isArray
  THEN [i \in DOMAIN auth.names |-> (auth.names[i] :> <<>>)]
  ELSE [i \in DOMAIN auth.entries |-> (auth.entries[i][1] :> auth.entries[i][2])]

\* m.description ?? `Endpoint for ${ method.toUpperCase() } ${ fullPath }`
Summary(m, method, fullPath) ==
  IF Has(m, "description") THEN <<m.description>>
  ELSE <<"Endpoint for ", ToUpperCase(method), " ", fullPath>>

Optional(present, k, v) == IF present THEN (k :> v) ELSE EmptyObject

Operation(builder, m, method, fullPath, operationId, ctx, responses) ==
  [summary |-> Summary(m, method, fullPath),
   operationId |-> operationId,
   tags |-> Tags(builder),
   responses |-> responses,
   parameters |-> ctx.arr]
  @@ Optional(Has(m, "deprecated"), "deprecated", IF Has(m, "deprecated") THEN m.deprecated ELSE FALSE)
  @@ Optional(Has(m, "auth"), "security", IF Has(m, "auth") THEN Security(m.auth) ELSE <<>>)
  @@ Optional(ctx.requestBody # EmptyObject, "requestBody", ctx.requestBody)

\* the sections of a route start from the shared state
StartContext ==
  [schemas |-> components.schemas, parameters |-> components.parameters,
   cache |-> paramCache, arr |-> <<>>, requestBody |-> EmptyObject, threw |-> ""]

\* the responses are assembled only when the schema sections did not throw
ResponsesAfter(ctx, m) ==
  IF ctx.threw = "" THEN Responses(m)
  ELSE [responses |-> EmptyObject, custom |-> FALSE, threw |-> ctx.threw]

Assembled(builder, m, method, fullPath, baseId, operationId, ctx, resp) ==
  [threw |-> resp.threw,
   fullPath |-> fullPath,
   method |-> method,
   baseId |-> baseId,
   operationId |-> operationId,
   custom |-> resp.custom,
   ctx |-> ctx,
   op |-> Operation(builder, m, method, fullPath, operationId, ctx, resp.responses)]

WithContext(builder, m, method, fullPath, baseId, ctx) ==
  Assembled(builder, m, method, fullPath, baseId, OperationId(baseId, opIdSet),
            ctx, ResponsesAfter(ctx, m))

WithPath(builder, route, m, method, fullPath) ==
  WithContext(builder, m, method, fullPath, BaseId(method, fullPath),
              SchemaSections(StartContext, route))

\* The body of builder.getRegisteredRoutes().forEach for one route: what it
\* leaves in the shared state, the operation it stores, and the error it
\* throws ("" when it completes).
RouteResult(builder, route) ==
  WithPath(builder, route, Metadata(route), ToLowerCase(route.method),
           FullPath(builder.root, route.path))

----------------------------------------------------------------------------
(* Document assembler: part_000 lines 256-280                               *)

\* a || b for an optional option
OptionOr(opts, k, default) ==
  IF Has(opts, k) /\ opts[k] # "" THEN opts[k] ELSE default

DefaultServers ==
  <<[url |-> "{scheme}://{host}:{port}",
     variables |-> [scheme |-> [default |-> "http", enum |-> <<"http", "https">>],
                    host |-> [default |-> "127.0.0.1"],
                    port |-> [default |-> "3000"]]]>>

\* a presence test that forgets the parameters map
HasComponentsNoParameters(comps) ==
  \/ DOMAIN comps.schemas # {}
  \/ DOMAIN comps.securitySchemes # {}

\* the condition of lines 274-278
HasComponents(comps) ==
  \/ DOMAIN comps.schemas # {}
  \/ DOMAIN comps.securitySchemes # {}
  \/ DOMAIN comps.parameters # {}

Document(opts, pathMap, comps) ==
  LET d == [openapi |-> "3.0.0",
            info |-> [title |-> OptionOr(opts, "title", "API Documentation"),
                      description |-> OptionOr(opts, "description",
                                               "Auto-generated Swagger documentation"),
                      version |-> OptionOr(opts, "version", "1.0.0")],
            servers |-> IF Has(opts, "servers") THEN opts.servers ELSE DefaultServers,
            paths |-> pathMap]
  IN IF HasComponents(comps) THEN ("components" :> comps) @@ d ELSE d

----------------------------------------------------------------------------
(* Inputs: the options, builders and routes the runs are drawn from         *)

\* the number of routes one run processes at most
MaxRoutes == 3

BearerSchemes == ("bearerAuth" :> [type |-> "http", scheme |-> "bearer"])

OptionSets ==
  { EmptyObject,
    [title |-> "Shop API", securitySchemas |-> BearerSchemes] }

NoMetadata == [null |-> TRUE]

GET == <<"G","E","T">>

POST == <<"P","O","S","T">>

PlainRoute(root, path, method) ==
  [builder |-> [root |-> root],
   route |-> [path |-> path, method |-> method, metadata |-> NoMetadata]]

\* routes without schema or metadata, for the path normalizer and the
\* operation ids
PathInputs ==
  { PlainRoute(<<>>, <<"/","a">>, GET),
    PlainRoute(<<>>, <<"/","a","_","1">>, GET),
    PlainRoute(<<"/","a">>, <<"/","b">>, GET),
    PlainRoute(<<>>, <<"/","a","_","b">>, GET),
    PlainRoute(<<"/","/","a">>, <<"/","/","b","/">>, GET),
    PlainRoute(<<"/","/","a">>, <<"/","/">>, GET),
    PlainRoute(<<"/","u">>, <<"/",":","i","d">>, POST),
    PlainRoute(<<"/">>, <<"/">>, GET) }

Key(name, type, description, required) ==
  [name |-> name, type |-> type, description |-> description, required |-> required]

\* a child whose meta carries a className
NamedKey(name, type, className) ==
  [name |-> name, type |-> type, description |-> Undefined, required |-> FALSE,
   className |-> className]

Object(label, keys) ==
  [kind |-> "object", label |-> label, className |-> "", multipart |-> FALSE,
   keys |-> keys]

SchemaRoute(path, schema) ==
  [builder |-> [root |-> <<"/","u">>, tags |-> <<"users">>],
   route |-> [path |-> path, method |-> GET, metadata |-> NoMetadata,
              schema |-> schema]]

XId == <<"x","-","i","d">>

Id == <<"i","d">>

Q == <<"q">>

\* routes with a schema bundle
SchemaInputs ==
  { SchemaRoute(<<"/","h">>, [headers |-> Object("", <<Key(XId, "string", "ID", TRUE)>>)]),
    SchemaRoute(<<"/","g">>, [headers |-> Object("", <<Key(XId, "string", "ID", FALSE)>>)]),
    SchemaRoute(<<"/",":","i","d","?">>, [params |-> Object("", <<Key(Id, "string", "ID", FALSE)>>)]),
    SchemaRoute(<<"/","q">>, [query |-> Object("", <<Key(Q, "string", "ID", FALSE)>>)]),
    SchemaRoute(<<"/","b">>, [body |-> [kind |-> "object", label |-> "", className |-> "Upload",
                                 multipart |-> TRUE, keys |-> <<>>]]),
    SchemaRoute(<<"/","n">>, [body |-> Object("", <<NamedKey(Q, "string", "Item")>>)]),
    SchemaRoute(<<"/","m">>, [body |-> Object("", <<NamedKey(Q, "string", "Item"),
                                                    NamedKey(Id, "string", "Owner")>>)]),
    SchemaRoute(<<"/","c","/",":","i","d","?">>,
                [headers |-> Object("Hdrs", <<Key(XId, "number", Undefined, FALSE)>>),
                 params |-> Object("", <<Key(Id, "string", Undefined, TRUE)>>),
                 query |-> Object("", <<Key(Q, "number", Undefined, TRUE),
                                        Key(Id, "string", "ID", FALSE)>>),
                 body |-> Object("", <<Key(Q, "string", Undefined, FALSE)>>)]) }

\* routes whose schema bundle makes the call throw
ThrowingSchemaInputs ==
  { SchemaRoute(<<"/","h">>, [headers |-> Object("", <<Key(<<"x","-","-","i","d">>, "string", Undefined, FALSE)>>)]),
    SchemaRoute(<<"/","q">>,
                [query |-> [kind |-> "malformed", label |-> "", className |-> "",
                            multipart |-> FALSE, keys |-> <<>>]]) }

NoHeaders == [kind |-> "none", entries |-> <<>>, contentType |-> Undefined]

Resp(code, name, headers, raw, example) ==
  [throws |-> FALSE, code |-> code, name |-> name, headers |-> headers,
   raw |-> raw, example |-> example]

NotFound == Resp(<<"4","0","4">>, <<"N","o","t","F","o","u","n","d">>, NoHeaders, FALSE, Undefined)

Ok == Resp(<<"2","0","0">>, <<>>, NoHeaders, FALSE, "done")

ResponseRoute(m) ==
  [builder |-> [root |-> <<>>],
   route |-> [path |-> <<"/","r">>, method |-> GET, metadata |-> m]]

\* routes with declared responses
ResponseInputs ==
  { ResponseRoute([example |-> "pong", description |-> "Ping", deprecated |-> TRUE]),
    ResponseRoute([responses |-> <<NotFound>>,
                   auth |-> [isArray |-> TRUE, names |-> <<"bearerAuth">>]]),
    ResponseRoute([responses |-> <<Ok>>, example |-> "pong"]),
    ResponseRoute([responses |->
      <<Resp(<<"5","0","0">>, <<"S","e","r","v","e","r","E","r","r","o","r">>,
             [kind |-> "plain", entries |-> <<<<"x-trace", "string">>>>,
              contentType |-> Undefined], FALSE, Undefined),
        Resp(<<"3","0","1">>, <<"M","o","v","e","d">>,
             [kind |-> "Headers", entries |-> <<>>, contentType |-> "text/plain"],
             TRUE, Undefined),
        Resp(<<>>, <<>>, NoHeaders, FALSE, Undefined)>>,
      auth |-> [isArray |-> FALSE, entries |-> <<<<"oauth", <<"read">>>>>>]]) }

\* routes whose declared responses make the call throw
ThrowingResponseInputs ==
  { ResponseRoute([responses |->
      <<Resp(<<"2","0","0">>, <<>>,
             [kind |-> "plain", entries |-> <<<<"content-type", "string">>>>,
              contentType |-> Undefined], FALSE, Undefined)>>]),
    ResponseRoute([responses |->
      <<[throws |-> TRUE, code |-> <<>>, name |-> <<>>, headers |-> NoHeaders,
         raw |-> FALSE, example |-> Undefined]>>]) }

Inputs ==
  PathInputs \cup SchemaInputs \cup ThrowingSchemaInputs
  \cup ResponseInputs \cup ThrowingResponseInputs


----------------------------------------------------------------------------
(* The run of one swaggerTransformer call                                   *)

Init ==
  /\ pc = "run"
  /\ options \in OptionSets
  /\ paths = EmptyObject
  /\ components = [schemas |-> EmptyObject,
                   securitySchemes |-> IF Has(options, "securitySchemas")
                                       THEN options.securitySchemas ELSE EmptyObject,
                   parameters |-> EmptyObject]
  /\ paramCache = EmptyObject
  /\ opIdSet = {}
  /\ log = <<>>
  /\ doc = EmptyObject
  /\ error = ""

\* paths[fullPath][method] = op, after if (!paths[fullPath]) paths[fullPath] = {}
PutOperation(pathMap, res) ==
  Put(pathMap, res.fullPath,
      Put(IF Has(pathMap, res.fullPath) THEN pathMap[res.fullPath] ELSE EmptyObject,
          res.method, res.op))

\* what the run remembers of a processed route: its inputs and its operation
LogEntry(builder, route, res) ==
  [builder |-> builder, route |-> route, fullPath |-> res.fullPath,
   method |-> res.method, baseId |-> res.baseId, custom |-> res.custom,
   op |-> res.op]

Completes(builder, route, res) ==
  /\ res.threw = ""
  /\ paths' = PutOperation(paths, res)
  /\ components' = [components EXCEPT !.schemas = res.ctx.schemas,
                                      !.parameters = res.ctx.parameters]
  /\ paramCache' = res.ctx.cache
  /\ opIdSet' = opIdSet \cup {res.operationId}
  /\ log' = Append(log, LogEntry(builder, route, res))

Throws(res) ==
  /\ res.threw # ""
  /\ error' = res.threw

\* one route of one builder is processed to its end: lines 81-253
ProcessRoute(builder, route) ==
  /\ pc = "run"
  /\ Len(log) < MaxRoutes
  /\ Completes(builder, route, RouteResult(builder, route))
  /\ UNCHANGED <<pc, options, doc, error>>

\* processing a route throws: the call ends with the error and no document
\* (the locals the route changed before it threw die with the call, so they
\* are left as they were)
RaiseError(builder, route) ==
  /\ pc = "run"
  /\ Len(log) < MaxRoutes
  /\ Throws(RouteResult(builder, route))
  /\ pc' = "threw"
  /\ UNCHANGED <<options, paths, components, paramCache, opIdSet, log, doc>>

\* all builders are processed: the document is assembled and returned
Return ==
  /\ pc = "run"
  /\ pc' = "done"
  /\ doc' = Document(options, paths, components)
  /\ UNCHANGED <<options, paths, components, paramCache, opIdSet, log, error>>

Next ==
  \/ \E i \in Inputs : ProcessRoute(i.builder, i.route)
  \/ \E i \in Inputs : RaiseError(i.builder, i.route)
  \/ Return

Spec == Init /\ [][Next]_vars

----------------------------------------------------------------------------
(* Properties                                                               *)

\* the call has returned its document
Returned == pc = "done"

\* the operation of log entry e is the one the returned paths map holds
InDoc(e) ==
  /\ Has(doc.paths, e.fullPath)
  /\ Has(doc.paths[e.fullPath], e.method)
  /\ doc.paths[e.fullPath][e.method].operationId = e.op.operationId

\* the children a route's schema bundle declares for one section
KeysOf(route, section) ==
  IF Has(route, "schema") /\ Has(route.schema, section)
     /\ route.schema[section].kind = "object"
  THEN route.schema[section].keys ELSE <<>>

\* the component name behind the k-th entry of an operation's parameters
RefAt(e, k) == e.op.parameters[k].ref

\* the component the k-th entry of an operation's parameters resolves to
ResolvedAt(e, k) == doc.components.parameters[RefAt(e, k)]

\* the positions of the path-parameter entries: they follow the header entries
PathPositions(e) ==
  { Len(KeysOf(e.route, "headers")) + k : k \in DOMAIN KeysOf(e.route, "params") }

\* C1: in the returned document, every path-parameter entry of every
\* operation resolves to a parameter object with required = true.
C1_PathParamsRequired ==
  Returned =>
    \A i \in DOMAIN log : \A k \in PathPositions(log[i]) :
      ResolvedAt(log[i], k).required = TRUE

\* the header child a of route e and the header child b of route f have the
\* same name, schema and description
SameHeader(e, a, f, b) ==
  /\ HeaderName(KeysOf(e.route, "headers")[a].name)
       = HeaderName(KeysOf(f.route, "headers")[b].name)
  /\ PropSchema(KeysOf(e.route, "headers")[a]) = PropSchema(KeysOf(f.route, "headers")[b])

\* the entries of components.parameters that are the header parameter key
HeaderEntries(key) ==
  { n \in DOMAIN doc.components.parameters :
      /\ doc.components.parameters[n].in = HEADER
      /\ doc.components.parameters[n].name = HeaderName(key.name)
      /\ doc.components.parameters[n].schema = PropSchema(key) }

DocOperations ==
  { pm \in (DOMAIN doc.paths) \X { m[2] : m \in { <<e, log[e].method>> : e \in DOMAIN log } } :
      Has(doc.paths[pm[1]], pm[2]) }

\* C3: no two operations of the returned document carry the same operationId.
C3_OperationIdsUnique ==
  Returned =>
    \A x, y \in DocOperations :
      x # y => doc.paths[x[1]][x[2]].operationId # doc.paths[y[1]][y[2]].operationId

\* two operations under different path keys whose base ids coincide
C3_Witness ==
  /\ Returned
  /\ \E i, j \in DOMAIN log :
       /\ InDoc(log[i]) /\ InDoc(log[j])
       /\ log[i].fullPath # log[j].fullPath
       /\ log[i].baseId = log[j].baseId
       /\ log[i].op.operationId # log[j].op.operationId

\* the number of routes processed before the i-th one with the same base id
Rank(i) == Cardinality({ j \in 1..(i - 1) : log[j].baseId = log[i].baseId })

\* the operation ids assigned before the i-th route
EarlierIds(i) == { log[j].op.operationId : j \in 1..(i - 1) }

\* C4 as stated: the routes sharing a base id get, in processing order,
\* exactly base, base_1, ..., base_{N-1}, whatever else is processed.
C4_ExactSequence ==
  \A i \in DOMAIN log : log[i].op.operationId = Candidate(log[i].baseId, Rank(i))

\* a route with another base id holds one of base, base_1, ..., base_{i}
Disturbed(i) ==
  \E j \in 1..(i - 1), n \in 0..i :
    /\ log[j].baseId # log[i].baseId
    /\ log[j].op.operationId = Candidate(log[i].baseId, n)

\* C4 amended: every route gets the first of base, base_1, base_2, ... that
\* no earlier route of the run was assigned; among the routes sharing a base
\* id the suffixes therefore grow strictly, and they are exactly
\* base, base_1, ..., base_{N-1} when no route with another base id holds one
\* of these ids.
C4_FirstFreeSuffix ==
  \A i \in DOMAIN log :
    /\ \E n \in 0..Len(log) :
         /\ log[i].op.operationId = Candidate(log[i].baseId, n)
         /\ n >= Rank(i)
         /\ \A k \in 0..(n - 1) : Candidate(log[i].baseId, k) \in EarlierIds(i)
    /\ log[i].op.operationId \notin EarlierIds(i)
    /\ ~Disturbed(i) => log[i].op.operationId = Candidate(log[i].baseId, Rank(i))

\* two routes share a base id whose first suffixed id another route holds
C4_Witness ==
  \E i, j, k \in DOMAIN log :
    /\ i < j /\ j < k
    /\ log[i].baseId # log[j].baseId
    /\ log[j].baseId = log[k].baseId
    /\ log[i].op.operationId = Candidate(log[j].baseId, 1)
    /\ log[j].op.operationId = log[j].baseId
    /\ log[k].op.operationId = Candidate(log[j].baseId, 2)

RECURSIVE BracedFrom(_, _)
\* the template with every :word and :word? rewritten to {word}
BracedFrom(s, i) ==
  IF i > Len(s) THEN <<>>
  ELSE IF s[i] = ":" /\ WordEnd(s, i + 1) > i + 1
       THEN <<"{">> \o SubSeq(s, i + 1, WordEnd(s, i + 1) - 1) \o <<"}">>
            \o BracedFrom(s, IF WordEnd(s, i + 1) <= Len(s) /\ s[WordEnd(s, i + 1)] = "?"
                             THEN WordEnd(s, i + 1) + 1 ELSE WordEnd(s, i + 1))
       ELSE <<s[i]>> \o BracedFrom(s, i + 1)

\* C5: the path key of every route has each colon-prefixed identifier of
\* root + path, plain (:word) or optional (:word?), replaced by {word}.
C5_ParamsBraced ==
  \A i \in DOMAIN log :
    log[i].fullPath =
      StripTrailingSlash(CollapseSlashes(
        BracedFrom(log[i].builder.root \o log[i].route.path, 1)))

\* s holds two consecutive slashes
HasSlashRun(s) == \E k \in 1..(Len(s) - 1) : s[k] = "/" /\ s[k + 1] = "/"

\* C6: the path key of every route holds no run of two or more slashes.
C6_NoSlashRuns ==
  \A i \in DOMAIN log : ~HasSlashRun(log[i].fullPath)

\* C7: no path key of the returned document ends with a slash, unless the
\* key is exactly "/".
C7_NoTrailingSlash ==
  Returned =>
    \A k \in DOMAIN doc.paths :
      k = <<"/">> \/ k = <<>> \/ k[Len(k)] # "/"

\* the responses a route declares
Declared(route) ==
  IF Has(Metadata(route), "responses") THEN Metadata(route).responses ELSE <<>>

\* one of the declared responses has a status code starting with 1, 2 or 3
DeclaresSuccess(route) ==
  \E k \in DOMAIN Declared(route) :
    /\ Declared(route)[k].code # <<>>
    /\ Declared(route)[k].code[1] \in {"1", "2", "3"}

\* the example the default response carries for a route
DefaultContent(route) ==
  IF Has(Metadata(route), "example") THEN Metadata(route).example ELSE "Response content"

\* the operation holds the default 200 response
HoldsDefault(e) ==
  /\ Has(e.op.responses, <<"2","0","0">>)
  /\ e.op.responses[<<"2","0","0">>].description = "Successful response"
  /\ DOMAIN e.op.responses[<<"2","0","0">>].content = {"application/json"}
  /\ e.op.responses[<<"2","0","0">>].content["application/json"].example
       = [error |-> Null, content |-> DefaultContent(e.route)]

\* C8: the default 200 response is synthesized for a route if and only if
\* none of its declared responses is success-class; a route declaring no
\* response has the single entry 200 in responses.
C8_DefaultResponse ==
  \A i \in DOMAIN log :
    /\ HoldsDefault(log[i]) <=> ~DeclaresSuccess(log[i].route)
    /\ Declared(log[i].route) = <<>> => DOMAIN log[i].op.responses = {<<"2","0","0">>}

\* a route declaring only error-class responses got the default beside them
C8_Witness ==
  \E i \in DOMAIN log :
    /\ Declared(log[i].route) # <<>>
    /\ ~DeclaresSuccess(log[i].route)
    /\ HoldsDefault(log[i])
    /\ Cardinality(DOMAIN log[i].op.responses) = 2

\* C9: the call throws only when a response constructor throws or the
\* schema converter fails.
C9_OnlyHardFailures ==
  pc = "threw" => error \in {"constructor", "converter"}

\* C10: the returned document has the components key if and only if one of
\* components.schemas, components.parameters, components.securitySchemes is
\* not empty.
C10_ComponentsPresence ==
  Returned =>
    /\ Has(doc, "components") <=>
         (components.schemas # EmptyObject \/ components.parameters # EmptyObject
          \/ components.securitySchemes # EmptyObject)
    /\ Has(doc, "components") => doc.components = components

\* a document whose components hold parameters only
C10_Witness ==
  /\ Returned
  /\ Has(doc, "components")
  /\ doc.components.parameters # EmptyObject
  /\ doc.components.schemas = EmptyObject
  /\ doc.components.securitySchemes = EmptyObject

\* the parameter objects a route's schema bundle declares, in the order the
\* operation lists them: headers, then path parameters, then query parameters
DeclaredParams(route) ==
  [k \in DOMAIN KeysOf(route, "headers") |->
     ParamObj(HEADER, route.path, EmptyObject, KeysOf(route, "headers")[k].name,
              PropSchema(KeysOf(route, "headers")[k]))]
  \o [k \in DOMAIN KeysOf(route, "params") |->
        ParamObj(PATH, route.path, EmptyObject, KeysOf(route, "params")[k].name,
                 PropSchema(KeysOf(route, "params")[k]))]
  \o [k \in DOMAIN KeysOf(route, "query") |->
        ParamObj(QUERY, route.path, EmptyObject, KeysOf(route, "query")[k].name,
                 PropSchema(KeysOf(route, "query")[k]))]

\* the component name a parameter object derives: location_name
DerivedName(pObj) == CompName(pObj.in, pObj.name)

\* identical content (schema and description), different derived names
SameContentOtherName(pa, pb) ==
  /\ pa.schema = pb.schema
  /\ DescriptionOf(pa) = DescriptionOf(pb)
  /\ DerivedName(pa) # DerivedName(pb)

\* the k-th entry of the operation of e references the component registered
\* under the derived name of the parameter pObj, and that component is pObj's
UnderOwnName(e, k, pObj) ==
  /\ RefAt(e, k) = DerivedName(pObj)
  /\ DerivedName(pObj) \in DOMAIN doc.components.parameters
  /\ doc.components.parameters[DerivedName(pObj)].in = pObj.in
  /\ doc.components.parameters[DerivedName(pObj)].name = pObj.name

\* C11: in the returned document, two declared parameters with identical
\* content (same schema and description) but different derived component
\* names each have their own entry of components.parameters under their own
\* derived name location_name, and each operation references its own entry.
C11_SeparateEntries ==
  Returned =>
    \A i, j \in DOMAIN log :
      \A a \in DOMAIN DeclaredParams(log[i].route) :
        \A b \in DOMAIN DeclaredParams(log[j].route) :
          SameContentOtherName(DeclaredParams(log[i].route)[a],
                               DeclaredParams(log[j].route)[b]) =>
            /\ UnderOwnName(log[i], a, DeclaredParams(log[i].route)[a])
            /\ UnderOwnName(log[j], b, DeclaredParams(log[j].route)[b])

\* the routes processed so far that declare a body schema
WithBody == { i \in DOMAIN log :
                Has(log[i].route, "schema") /\ Has(log[i].route.schema, "body") }

\* the converted fragment and extracted components of the body schema of e
BodyConversion(e) == j2s(withClassName(e.route.schema.body))

\* the names of the components a conversion extracted
ExtractedNames(conv) ==
  IF Has(conv.components, "schemas")
  THEN { conv.components.schemas[k][1] : k \in DOMAIN conv.components.schemas }
  ELSE {}

\* the schema of the request body of an operation, under its one content type
BodySchemaOf(op) ==
  op.requestBody.content[CHOOSE ct \in DOMAIN op.requestBody.content : TRUE].schema

\* the request body schema the rule of section 4.4 gives a conversion
ByTheRule(conv) ==
  IF Has(conv.swagger, "ref") THEN [ref |-> conv.swagger.ref]
  ELSE IF Cardinality(ExtractedNames(conv)) = 1
       THEN [ref |-> CHOOSE n \in ExtractedNames(conv) : TRUE]
       ELSE conv.swagger

\* C12: for every processed route with a body schema, the request body schema
\* is a reference to the converted fragment's own target when the fragment is
\* a reference, otherwise a reference to the extracted component when exactly
\* one component was extracted, and otherwise (zero, or two or more extracted
\* components) the converted fragment itself, inlined.
C12_BodySchemaRule ==
  \A i \in WithBody :
    /\ Has(log[i].op, "requestBody")
    /\ BodySchemaOf(log[i].op) = ByTheRule(BodyConversion(log[i]))

================================================================================
